---- MODULE Spec2Model ----
(***************************************************************************)
(* A model of web/gui.js: the parameter panel (Panel, Folder) and the      *)
(* bindable input widgets (InputParam and its subclasses Boolean, Number,  *)
(* Range and Select) bound to one property of a target object.             *)
(*                                                                         *)
(* JavaScript values are records [t, n, s, a, ref]: t is the type, n the   *)
(* number, s the characters of a string, a the elements of an array and    *)
(* ref the identity of an object ("none" for a primitive).  DOM strings    *)
(* are sequences of one-character strings, so that String(), parseFloat(), *)
(* JSON.stringify() and JSON.parse() are computed on text.                 *)
(***************************************************************************)
EXTENDS Integers, Sequences, FiniteSets, TLC

\* Numbers of the model are the integers -1 .. MaxNum, and NaN.
MaxNum == 2
\* Callback functions the application may register are 1 .. NumFuns.
NumFuns == 2

----------------------------------------------------------------------------
(* JavaScript values *)

Num(k) == [t |-> "number", n |-> k, s |-> <<>>, a |-> <<>>, ref |-> "none"]
NaN == [t |-> "NaN", n |-> 0, s |-> <<>>, a |-> <<>>, ref |-> "none"]
Bool(b) == [t |-> "boolean", n |-> IF b THEN 1 ELSE 0, s |-> <<>>, a |-> <<>>, ref |-> "none"]
Str(chars) == [t |-> "string", n |-> 0, s |-> chars, a |-> <<>>, ref |-> "none"]
Arr(elems, id) == [t |-> "array", n |-> 0, s |-> <<>>, a |-> elems, ref |-> id]
Null == [t |-> "null", n |-> 0, s |-> <<>>, a |-> <<>>, ref |-> "none"]
Undefined == [t |-> "undefined", n |-> 0, s |-> <<>>, a |-> <<>>, ref |-> "none"]
\* The outcome of an expression that throws, with the error's message in s.
Thrown(msg) == [t |-> "throw", n |-> 0, s |-> <<msg>>, a |-> <<>>, ref |-> "none"]

\* Identities of objects: AppRef and OtherRef are two objects the application
\* holds, ParsedRef is an object JSON.parse has just allocated.
AppRef == "app"
OtherRef == "other"
ParsedRef == "parsed"

\* Whether x is truthy: what a boolean DOM property gets when x is assigned.
ToBoolean(x) ==
    CASE x.t = "boolean" -> x.n = 1
      [] x.t = "number" -> x.n # 0
      [] x.t = "string" -> x.s # <<>>
      [] x.t = "array" -> TRUE
      [] OTHER -> FALSE

\* a === b
StrictEquals(x, y) ==
    /\ x.t = y.t
    /\ x.t # "NaN"
    /\ x.t # "throw"
    /\ IF x.t = "array" THEN x.ref = y.ref
       ELSE x.n = y.n /\ x.s = y.s

\* Structural equality (the same JSON value); NaN is the same value as NaN.
SameValue(x, y) == x.t = y.t /\ x.n = y.n /\ x.s = y.s /\ x.a = y.a

----------------------------------------------------------------------------
(* Text conversions *)

Digits == <<"0", "1", "2", "3", "4", "5", "6", "7", "8", "9">>
IsDigit(c) == \E i \in 1..Len(Digits) : Digits[i] = c
DigitVal(c) == (CHOOSE i \in 1..Len(Digits) : Digits[i] = c) - 1

RECURSIVE NatToString(_)
NatToString(k) ==
    IF k < Len(Digits) THEN <<Digits[k + 1]>>
    ELSE NatToString(k \div Len(Digits)) \o <<Digits[(k % Len(Digits)) + 1]>>

RECURSIVE StringToNat(_)
StringToNat(str) ==
    IF str = <<>> THEN 0
    ELSE StringToNat(SubSeq(str, 1, Len(str) - 1)) * Len(Digits) + DigitVal(str[Len(str)])

IntToString(k) == IF k < 0 THEN <<"-">> \o NatToString(0 - k) ELSE NatToString(k)

RECURSIVE Join(_, _)
\* The elements of a sequence of texts joined by sep.
Join(texts, sep) ==
    IF texts = <<>> THEN <<>>
    ELSE IF Len(texts) = 1 THEN texts[1]
    ELSE texts[1] \o sep \o Join(Tail(texts), sep)

\* String(x): the text a DOM property gets when x is assigned to it.
StringOf(x) ==
    CASE x.t = "number" -> IntToString(x.n)
      [] x.t = "NaN" -> <<"N", "a", "N">>
      [] x.t = "boolean" -> IF x.n = 1 THEN <<"t", "r", "u", "e">> ELSE <<"f", "a", "l", "s", "e">>
      [] x.t = "string" -> x.s
      [] x.t = "array" -> Join([i \in 1..Len(x.a) |-> IntToString(x.a[i])], <<",">>)
      [] x.t = "null" -> <<"n", "u", "l", "l">>
      [] OTHER -> <<"u", "n", "d", "e", "f", "i", "n", "e", "d">>

\* The length of the longest prefix of str made of digits.
DigitPrefixLen(str) ==
    CHOOSE k \in 0..Len(str) :
        /\ \A i \in 1..k : IsDigit(str[i])
        /\ k < Len(str) => ~IsDigit(str[k + 1])

\* parseFloat(str), on integer texts: an optional sign, then digits; what
\* follows the digits is ignored, and a text without digits gives NaN.
parseFloat(str) ==
    LET signed == str # <<>> /\ str[1] \in {"-", "+"}
        body == IF signed THEN Tail(str) ELSE str
        k == DigitPrefixLen(body)
        mag == StringToNat(SubSeq(body, 1, k))
    IN  IF k = 0 THEN NaN
        ELSE Num(IF signed /\ str[1] = "-" THEN 0 - mag ELSE mag)

\* A valid floating-point number of HTML, on integer texts: an optional "-"
\* and at least one digit, nothing else.
IsValidNumberText(str) ==
    LET body == IF str # <<>> /\ str[1] = "-" THEN Tail(str) ELSE str
    IN  body # <<>> /\ DigitPrefixLen(body) = Len(body)

\* JSON.stringify(x)
JSONstringify(x) ==
    CASE x.t = "number" -> IntToString(x.n)
      [] x.t = "NaN" -> <<"n", "u", "l", "l">>
      [] x.t = "null" -> <<"n", "u", "l", "l">>
      [] x.t = "boolean" -> StringOf(x)
      [] x.t = "string" -> <<"\"">> \o x.s \o <<"\"">>
      [] x.t = "array" ->
            <<"[">> \o Join([i \in 1..Len(x.a) |-> IntToString(x.a[i])], <<",">>) \o <<"]">>
      [] OTHER -> <<"u", "n", "d", "e", "f", "i", "n", "e", "d">>

RECURSIVE Split(_, _)
\* The pieces of str between the occurrences of the character sep.
Split(str, sep) ==
    IF \A i \in 1..Len(str) : str[i] # sep THEN <<str>>
    ELSE LET k == CHOOSE i \in 1..Len(str) :
                      str[i] = sep /\ \A j \in 1..(i - 1) : str[j] # sep
         IN  <<SubSeq(str, 1, k - 1)>> \o Split(SubSeq(str, k + 1, Len(str)), sep)

SyntaxError == "SyntaxError"

\* JSON.parse(str), on the texts JSONstringify produces; any other text,
\* the empty text included, throws a SyntaxError.  An array is a new object.
JSONparse(str) ==
    LET last == Len(str)
        inner == SubSeq(str, 2, last - 1)
        pieces == Split(inner, ",")
    IN  IF str = <<>> THEN Thrown(SyntaxError)
        ELSE IF IsValidNumberText(str) THEN parseFloat(str)
        ELSE IF str = <<"t", "r", "u", "e">> THEN Bool(TRUE)
        ELSE IF str = <<"f", "a", "l", "s", "e">> THEN Bool(FALSE)
        ELSE IF str = <<"n", "u", "l", "l">> THEN Null
        ELSE IF last >= 2 /\ str[1] = "\"" /\ str[last] = "\""
                /\ \A i \in 1..Len(inner) : inner[i] # "\""
             THEN Str(inner)
        ELSE IF last >= 2 /\ str[1] = "[" /\ str[last] = "]"
             THEN IF inner = <<>> THEN Arr(<<>>, ParsedRef)
                  ELSE IF \A i \in 1..Len(pieces) : IsValidNumberText(pieces[i])
                       THEN Arr([i \in 1..Len(pieces) |-> parseFloat(pieces[i]).n], ParsedRef)
                       ELSE Thrown(SyntaxError)
        ELSE Thrown(SyntaxError)

----------------------------------------------------------------------------
(* The host's elements *)

\* An element made by spawn('input' or 'select', ...), before any property
\* of it is assigned: a text input, or a select without options.
NewElement(tagName) ==
    [tag |-> tagName, type |-> "text", checked |-> FALSE, value |-> <<>>,
     min |-> 0, max |-> 0, step |-> 1, options |-> <<>>, selectedIndex |-> 0,
     disabled |-> FALSE, borderColor |-> ""]
NoElement == NewElement("none")

\* The readout of a Range: the span and its text.
NoSpan == [exists |-> FALSE, textContent |-> <<>>]

\* input.value of a select: the value of the selected option, "" without.
SelectedValue(inp) ==
    IF inp.selectedIndex = 0 THEN <<>> ELSE inp.options[inp.selectedIndex].value

\* The value sanitization of <input type=number>: a text that is no valid
\* number becomes the empty text.
NumberSanitize(text) == IF IsValidNumberText(text) THEN text ELSE <<>>

\* The value sanitization of <input type=range>: a text that is no valid
\* number becomes the default value (the middle of the range), the number is
\* clamped to [min, max] and rounded to the nearest point of the step grid
\* that starts at min, the larger of two nearest.  Computed on doubled
\* numbers, the middle of a range being a half.
RangeSanitize(text, min, max, step) ==
    LET eff == IF step > 0 THEN step ELSE 1
        x2 == IF IsValidNumberText(text) THEN 2 * parseFloat(text).n
              ELSE IF max < min THEN 2 * min ELSE min + max
        c2 == IF x2 < 2 * min THEN 2 * min
              ELSE IF max >= min /\ x2 > 2 * max THEN 2 * max ELSE x2
        grid == IF max < min THEN {min}
                ELSE {min + k * eff : k \in 0..((max - min) \div eff)}
        Dist(g) == IF 2 * g >= c2 THEN 2 * g - c2 ELSE c2 - 2 * g
        best == CHOOSE g \in grid :
                    \A h \in grid : Dist(g) < Dist(h) \/ (Dist(g) = Dist(h) /\ g >= h)
    IN  IntToString(best)

----------------------------------------------------------------------------
(* The hooks of the widget classes *)

\* The concrete classes of the source, and two subclasses of InputParam that
\* leave out a required hook: OmitsSetup defines value() only (as Boolean
\* does), OmitsValue defines setup() only (as Boolean does).
Concrete == {"Boolean", "Number", "Range", "Select"}
Incomplete == {"OmitsSetup", "OmitsValue"}
Classes == Concrete \cup Incomplete

\* The methods a class defines itself.
Overrides(c) ==
    CASE c = "Boolean" -> {"setup", "value"}
      [] c = "Number" -> {"setup", "value"}
      [] c = "Range" -> {"setup", "value", "update"}
      [] c = "Select" -> {"setup", "value", "tag"}
      [] c = "OmitsSetup" -> {"value"}
      [] c = "OmitsValue" -> {"setup"}

SetupNotImplemented == "Method \"setup()\" must be implemented."
ValueNotImplemented == "Method \"value()\" must be implemented."

\* Param.tag() and Select.tag()
tag(c) == IF c = "Select" THEN "select" ELSE "input"

\* Boolean.setup: setInput({type: 'checkbox', checked: initial})
BooleanSetup(inp, initial) ==
    [inp EXCEPT !.type = "checkbox", !.checked = ToBoolean(initial)]

FocusColor == "#ff6b6b"
BlurColor == "rgba(255, 255, 255, 0.3)"

\* Number.setup: the css gives the border its colour, then
\* setInput({type: 'number', value: initial})
NumberSetup(inp, initial) ==
    [inp EXCEPT !.borderColor = BlurColor, !.type = "number",
                !.value = NumberSanitize(StringOf(initial))]

\* Range.setup: setInput({type: 'range', min, max, step, value: initial})
RangeSetup(inp, initial, args) ==
    [inp EXCEPT !.type = "range", !.min = args.min, !.max = args.max,
                !.step = args.step,
                !.value = RangeSanitize(StringOf(initial), args.min, args.max, args.step)]

\* The test of Select.setup that selects an option.
Matches(value, initial) == StrictEquals(value, initial)

RECURSIVE SelectedAfter(_, _, _)
\* The index of the selected option once the loop of Select.setup has added
\* the first k entries (0: the select has no option): an option whose value
\* matches is selected, which deselects the others; the first option added
\* to a select that has none selected is selected by the host.
SelectedAfter(entries, initial, k) ==
    IF k = 0 THEN 0
    ELSE IF Matches(entries[k].value, initial) THEN k
    ELSE IF k = 1 THEN 1
    ELSE SelectedAfter(entries, initial, k - 1)

\* Select.setup: one option per entry, in order, its value the JSON text.
SelectSetup(inp, initial, entries) ==
    [inp EXCEPT !.options = [i \in 1..Len(entries) |->
                                [text |-> entries[i].key,
                                 value |-> JSONstringify(entries[i].value)]],
                !.selectedIndex = SelectedAfter(entries, initial, Len(entries))]

\* this.setup with a base method that returns instead of throwing.
setupSilentBase(c, inp, initial, args) ==
    [thrown |-> "",
     input |-> CASE c = "Number" -> NumberSetup(inp, initial)
                 [] c = "Range" -> RangeSetup(inp, initial, args)
                 [] c = "Select" -> SelectSetup(inp, initial, args.options)
                 [] c = "OmitsSetup" -> inp
                 [] OTHER -> BooleanSetup(inp, initial),
     span |-> IF c = "Range" THEN [exists |-> TRUE, textContent |-> <<>>] ELSE NoSpan,
     styles |-> IF c = "Range" THEN 1 ELSE 0]

\* this.setup(initial, ...args): the element after it, the readout and the
\* style rule Range.setup adds, or the error thrown.
setup(c, inp, initial, args) ==
    IF "setup" \notin Overrides(c)
    THEN [thrown |-> SetupNotImplemented, input |-> inp, span |-> NoSpan, styles |-> 0]
    ELSE [thrown |-> "",
          input |-> CASE c = "Number" -> NumberSetup(inp, initial)
                      [] c = "Range" -> RangeSetup(inp, initial, args)
                      [] c = "Select" -> SelectSetup(inp, initial, args.options)
                      [] OTHER -> BooleanSetup(inp, initial),
          span |-> IF c = "Range" THEN [exists |-> TRUE, textContent |-> <<>>] ELSE NoSpan,
          styles |-> IF c = "Range" THEN 1 ELSE 0]

\* this.value(): the value of the class, or the error thrown.
value(c, inp) ==
    IF "value" \notin Overrides(c) THEN Thrown(ValueNotImplemented)
    ELSE CASE c = "Number" -> parseFloat(inp.value)
           [] c = "Range" -> parseFloat(inp.value)
           [] c = "Select" -> JSONparse(SelectedValue(inp))
           [] OTHER -> Bool(inp.checked)

\* this.update with no class overriding it.
updateInherited(c, span, v) == span

\* this.update(value): Range writes the readout, the default does nothing.
update(c, span, v) ==
    IF "update" \in Overrides(c) THEN [span EXCEPT !.textContent = StringOf(v)]
    ELSE span

----------------------------------------------------------------------------
(* The application: what it binds and what it passes *)

Nums == {Num(k) : k \in -1..MaxNum} \cup {NaN}
TheArray == Arr(<<1, 2>>, AppRef)
\* The values target[property] may hold when the widget is constructed.
Values ==
    {Bool(TRUE), Bool(FALSE)} \cup Nums
    \cup {Str(<<"x">>), Str(<<"1">>), TheArray, Arr(<<1, 2>>, OtherRef)}

NoArgs == [min |-> 0, max |-> 0, step |-> 1, options |-> <<>>]
RangeArgs ==
    {[NoArgs EXCEPT !.max = MaxNum - 1],
     [NoArgs EXCEPT !.max = MaxNum, !.step = 2]}
OptionMaps ==
    {<<[key |-> "A", value |-> Num(1)], [key |-> "B", value |-> Str(<<"x">>)],
       [key |-> "C", value |-> TheArray], [key |-> "D", value |-> Str(<<"1">>)]>>,
     <<>>}
SelectArgs == {[NoArgs EXCEPT !.options = o] : o \in OptionMaps}
ArgsOf(c) ==
    CASE c = "Range" -> RangeArgs
      [] c = "Select" -> SelectArgs
      [] OTHER -> {NoArgs}

\* The value domain of a class (the property holds a value compatible with
\* the widget): a boolean, a number, any JSON value.
Compatible(c, v) ==
    CASE c = "Number" -> v \in Nums
      [] c = "Range" -> v \in Nums \ {NaN}
      [] c = "Select" -> v \in Values \ (Nums \ {Num(1), Num(2)})
      [] OTHER -> v.t = "boolean"

Funs == 1..NumFuns
Names == {"speed"}
Title == "Noise"

----------------------------------------------------------------------------
(* State *)

VARIABLES
    target,      \* target[property]
    phase,       \* "none": no widget yet; "constructed"; "failed": the constructor threw
    cls,         \* the class of the widget
    args,        \* the arguments the widget was constructed with
    input,       \* this.input
    valueSpan,   \* this.valueSpan
    label,       \* this.label.textContent
    onInputFn,   \* this._onInput (0: undefined)
    onChangeFn,  \* this._onChange (0: undefined)
    listeners,   \* the events this.input has a listener for
    thrown,      \* the message of the error the constructor or a listener threw, or ""
    rows,        \* the widget rows attached to the panel's element
    headStyles,  \* the style elements attached to document.head
    folder,      \* the folder of the panel: [title, open, display]
    trace,       \* history: the steps of the constructor or listener that ran last,
                 \*   <<>> once another method of the widget has run
    initial,     \* history: target[property] when the widget was constructed
    lastReg,     \* history: the function last passed to onInput and to onChange, and
                 \*   whether a registration has replaced another function
    liveEvents   \* history: whether a live interaction event has run

widget == <<cls, args, input, valueSpan, label, onInputFn, onChangeFn, listeners>>
dom == <<rows, headStyles>>
history == <<trace, initial, lastReg, liveEvents>>
vars == <<target, phase, widget, thrown, dom, folder, history>>

\* A step of a handler.  A call of a callback records what the callback
\* sees: target[property] and the readout at the moment it runs.
Step(name, v) ==
    [step |-> name, f |-> 0, arg |-> v, seenTarget |-> Undefined, seenSpan |-> <<>>]
Call(name, fn, v, m) ==
    [step |-> name, f |-> fn, arg |-> v, seenTarget |-> m.target, seenSpan |-> m.span.textContent]

\* The part of the state a handler runs on; its trace starts with the
\* handler's name and what it was given.
Machine(name, given, tgt, span) ==
    [target |-> tgt, span |-> span, trace |-> <<Step(name, given)>>, thrown |-> ""]

DoValue(m, v) == [m EXCEPT !.trace = Append(@, Step("value", v))]
DoUpdate(m, c, v) ==
    [m EXCEPT !.span = update(c, @, v), !.trace = Append(@, Step("update", v))]
DoWrite(m, v) == [m EXCEPT !.target = v, !.trace = Append(@, Step("write", v))]
DoCall(m, name, fn, v) ==
    IF fn = 0 THEN m ELSE [m EXCEPT !.trace = Append(@, Call(name, fn, v, m))]
DoThrow(m, msg) == [m EXCEPT !.thrown = msg]

\* The element of a singleton set: { e(x) : x \in {d} } names d once in e.
Only(S) == CHOOSE x \in S : TRUE

\* The listener of 'input' without the write of target[property].
InputListenerNoWrite(m, c, inp, fn) ==
    Only({IF v.t = "throw" THEN DoThrow(m, v.s[1])
          ELSE DoCall(DoUpdate(DoValue(m, v), c, v), "_onInput", fn, v) :
            v \in {value(c, inp)}})

\* The listener of 'input' with the callback called first.
InputListenerCallbackFirst(m, c, inp, fn) ==
    Only({IF v.t = "throw" THEN DoThrow(m, v.s[1])
          ELSE DoWrite(DoUpdate(DoCall(DoValue(m, v), "_onInput", fn, v), c, v), v) :
            v \in {value(c, inp)}})

\* The listener of 'input': value(), update(value), target[property] = value,
\* then this._onInput(value) when there is one.
InputListener(m, c, inp, fn) ==
    Only({IF v.t = "throw" THEN DoThrow(m, v.s[1])
          ELSE DoCall(DoWrite(DoUpdate(DoValue(m, v), c, v), v), "_onInput", fn, v) :
            v \in {value(c, inp)}})

\* The listener of 'change' made like the listener of 'input'.
ChangeListenerLikeInput(m, c, inp, fn) ==
    Only({IF v.t = "throw" THEN DoThrow(m, v.s[1])
          ELSE DoCall(DoWrite(DoUpdate(DoValue(m, v), c, v), v), "_onChange", fn, v) :
            v \in {value(c, inp)}})

\* The listener of 'change': this._onChange(this.value()) when there is one.
ChangeListener(m, c, inp, fn) ==
    IF fn = 0 THEN m
    ELSE Only({IF v.t = "throw" THEN DoThrow(m, v.s[1])
               ELSE DoCall(DoValue(m, v), "_onChange", fn, v) :
                 v \in {value(c, inp)}})

\* The end of InputParam's constructor: this.update(this.value()).
InitialUpdate(m, c, inp) ==
    Only({IF v.t = "throw" THEN DoThrow(m, v.s[1]) ELSE DoUpdate(DoValue(m, v), c, v) :
            v \in {value(c, inp)}})

\* InputParam's constructor writing the value it shows back to the target.
ConstructorWritesBack(m, c, inp, a) ==
    Only({[m |-> IF st.thrown # "" THEN DoThrow(m, st.thrown)
                 ELSE Only({IF v.t = "throw" THEN DoThrow(m, v.s[1])
                            ELSE DoWrite(DoUpdate(DoValue([m EXCEPT !.span = st.span], v),
                                                  c, v), v) :
                              v \in {value(c, st.input)}}),
           input |-> st.input,
           styles |-> st.styles] :
            st \in {setup(c, inp, m.target, a)}})

\* InputParam's constructor after the listeners are added:
\* this.setup(target[property], ...args); this.update(this.value()).
\* Gives the machine, the element and the style rules added.
Constructor(m, c, inp, a) ==
    Only({[m |-> IF st.thrown # "" THEN DoThrow(m, st.thrown)
                 ELSE InitialUpdate([m EXCEPT !.span = st.span,
                                              !.trace = Append(@, Step("setup", m.target))],
                                    c, st.input),
           input |-> st.input,
           styles |-> st.styles] :
            st \in {setup(c, inp, m.target, a)}})

\* onInput(fun) that keeps a function registered before.
SetOnInputKeepsFirst(old, fn) ==
    [input |-> IF old.input = 0 THEN fn ELSE old.input, change |-> old.change]

\* onInput(fun) and onChange(fun): this._onInput and this._onChange after.
SetOnInput(old, fn) == [input |-> fn, change |-> old.change]
SetOnChange(old, fn) == [input |-> old.input, change |-> fn]

\* new Folder(title, parent): details.open = true, no display style.
NewFolder(title) == [title |-> title, open |-> TRUE, display |-> ""]

\* The application has made the GUI and added one folder to it; it holds the
\* target object and has bound no widget yet.
Init ==
    /\ target \in Values
    /\ phase = "none"
    /\ cls = "none"
    /\ args = NoArgs
    /\ input = NoElement
    /\ valueSpan = NoSpan
    /\ label = ""
    /\ onInputFn = 0
    /\ onChangeFn = 0
    /\ listeners = {}
    /\ thrown = ""
    /\ rows = 0
    /\ headStyles = 0
    /\ folder = NewFolder(Title)
    /\ trace = <<>>
    /\ initial = target
    /\ lastReg = [input |-> 0, change |-> 0, replaced |-> FALSE]
    /\ liveEvents = FALSE

\* Panel.bool, number, range, select: new C(this._elt, target, property, ...args).
\* Param's constructor attaches the row, InputParam's adds the two listeners
\* and runs the hooks.
Construct(c, a) ==
    /\ phase = "none"
    /\ Compatible(c, target)
    /\ \E r \in {Constructor(Machine("constructor", target, target, NoSpan), c,
                            NewElement(tag(c)), a)} :
           /\ input' = r.input
           /\ headStyles' = headStyles + r.styles
           /\ valueSpan' = r.m.span
           /\ target' = r.m.target
           /\ thrown' = r.m.thrown
           /\ trace' = r.m.trace
           /\ phase' = IF r.m.thrown = "" THEN "constructed" ELSE "failed"
    /\ cls' = c
    /\ args' = a
    /\ rows' = rows + 1
    /\ listeners' = {"input", "change"}
    /\ initial' = target
    /\ UNCHANGED <<label, onInputFn, onChangeFn, folder, lastReg, liveEvents>>

\* Param.legend(name)
Legend(name) ==
    /\ phase = "constructed"
    /\ label' = name
    /\ trace' = <<>>
    /\ UNCHANGED <<target, phase, cls, args, input, valueSpan, onInputFn, onChangeFn,
                   listeners, thrown, dom, folder, initial, lastReg, liveEvents>>

\* InputParam.readOnly()
ReadOnly ==
    /\ phase = "constructed"
    /\ input' = [input EXCEPT !.disabled = TRUE]
    /\ trace' = <<>>
    /\ UNCHANGED <<target, phase, cls, args, valueSpan, label, onInputFn, onChangeFn,
                   listeners, thrown, dom, folder, initial, lastReg, liveEvents>>

\* InputParam.onChange(fun)
OnChange(fn) ==
    /\ phase = "constructed"
    /\ \E after \in {SetOnChange([input |-> onInputFn, change |-> onChangeFn], fn)} :
           onInputFn' = after.input /\ onChangeFn' = after.change
    /\ lastReg' = [lastReg EXCEPT !.change = fn,
                                  !.replaced = @ \/ lastReg.change \notin {0, fn}]
    /\ trace' = <<>>
    /\ UNCHANGED <<target, phase, cls, args, input, valueSpan, label, listeners, thrown,
                   dom, folder, initial, liveEvents>>

\* InputParam.onInput(fun)
OnInput(fn) ==
    /\ phase = "constructed"
    /\ \E after \in {SetOnInput([input |-> onInputFn, change |-> onChangeFn], fn)} :
           onInputFn' = after.input /\ onChangeFn' = after.change
    /\ lastReg' = [lastReg EXCEPT !.input = fn,
                                  !.replaced = @ \/ lastReg.input \notin {0, fn}]
    /\ trace' = <<>>
    /\ UNCHANGED <<target, phase, cls, args, input, valueSpan, label, listeners, thrown,
                   dom, folder, initial, liveEvents>>

\* What the user can make of the interactive element, each with the value
\* the user means by it: a state of the checkbox, a number typed (or a text
\* that is none, which the host empties), a position of the slider on its
\* grid, an option of the dropdown (meaning the value the application gave
\* for it).
UserChoices(c, inp, a) ==
    CASE c = "Number" ->
            {[ui |-> [inp EXCEPT !.value = NumberSanitize(StringOf(x))], means |-> x] :
                x \in Nums}
      [] c = "Range" ->
            {[ui |-> [inp EXCEPT !.value = IntToString(k)], means |-> Num(k)] :
                k \in {j \in inp.min..inp.max :
                          RangeSanitize(IntToString(j), inp.min, inp.max, inp.step)
                            = IntToString(j)}}
      [] c = "Select" ->
            {[ui |-> [inp EXCEPT !.selectedIndex = i], means |-> a.options[i].value] :
                i \in 1..Len(inp.options)}
      [] OTHER ->
            {[ui |-> [inp EXCEPT !.checked = b], means |-> Bool(b)] : b \in BOOLEAN}

\* A live interaction: the host changes the element, then runs the listener
\* of 'input'.
InputEvent(choice) ==
    /\ phase = "constructed"
    /\ ~input.disabled
    /\ "input" \in listeners
    /\ input' = choice.ui
    /\ \E m \in {InputListener(Machine("input", choice.means, target, valueSpan),
                              cls, choice.ui, onInputFn)} :
           /\ target' = m.target
           /\ valueSpan' = m.span
           /\ trace' = m.trace
           /\ thrown' = m.thrown
    /\ liveEvents' = TRUE
    /\ UNCHANGED <<phase, cls, args, label, onInputFn, onChangeFn, listeners, dom, folder,
                   initial, lastReg>>

\* A committed interaction: the host runs the listener of 'change'.
ChangeEvent ==
    /\ phase = "constructed"
    /\ ~input.disabled
    /\ "change" \in listeners
    /\ \E m \in {ChangeListener(Machine("change", Undefined, target, valueSpan),
                               cls, input, onChangeFn)} :
           /\ target' = m.target
           /\ valueSpan' = m.span
           /\ trace' = m.trace
           /\ thrown' = m.thrown
    /\ UNCHANGED <<phase, cls, args, input, label, onInputFn, onChangeFn, listeners, dom,
                   folder, initial, lastReg, liveEvents>>

\* The listeners of 'focus' and 'blur' that Number.setup adds: they set the
\* border colour of the element.
Focus ==
    /\ phase = "constructed"
    /\ cls = "Number"
    /\ ~input.disabled
    /\ input.borderColor # FocusColor
    /\ input' = [input EXCEPT !.borderColor = FocusColor]
    /\ UNCHANGED <<target, phase, cls, args, valueSpan, label, onInputFn, onChangeFn,
                   listeners, thrown, dom, folder, history>>

Blur ==
    /\ phase = "constructed"
    /\ cls = "Number"
    /\ input.borderColor = FocusColor
    /\ input' = [input EXCEPT !.borderColor = BlurColor]
    /\ UNCHANGED <<target, phase, cls, args, valueSpan, label, onInputFn, onChangeFn,
                   listeners, thrown, dom, folder, history>>

----------------------------------------------------------------------------
(* Folder *)

\* hide() that collapses the folder too.
hideAndClose(fd) == [fd EXCEPT !.display = "none", !.open = FALSE]

\* Folder.show, hide, open, close: the folder after the call.
show(fd) == [fd EXCEPT !.display = ""]
hide(fd) == [fd EXCEPT !.display = "none"]
open(fd) == [fd EXCEPT !.open = TRUE]
close(fd) == [fd EXCEPT !.open = FALSE]

Show ==
    /\ folder' = show(folder)
    /\ UNCHANGED <<target, phase, widget, thrown, dom, history>>
Hide ==
    /\ folder' = hide(folder)
    /\ UNCHANGED <<target, phase, widget, thrown, dom, history>>
Open ==
    /\ folder' = open(folder)
    /\ UNCHANGED <<target, phase, widget, thrown, dom, history>>
Close ==
    /\ folder' = close(folder)
    /\ UNCHANGED <<target, phase, widget, thrown, dom, history>>

Next ==
    \/ \E c \in Classes : \E a \in ArgsOf(c) : Construct(c, a)
    \/ \E name \in Names : Legend(name)
    \/ ReadOnly
    \/ \E fn \in Funs : OnChange(fn)
    \/ \E fn \in Funs : OnInput(fn)
    \/ \E choice \in UserChoices(cls, input, args) : InputEvent(choice)
    \/ ChangeEvent
    \/ Focus
    \/ Blur
    \/ Show
    \/ Hide
    \/ Open
    \/ Close

Spec == Init /\ [][Next]_vars

----------------------------------------------------------------------------
(* Properties *)

\* The handler whose steps the trace holds: "constructor", "input",
\* "change", or "none".
LastHandler == IF trace = <<>> THEN "none" ELSE trace[1].step
\* The calls of a callback in the trace, and the names of its steps.
Calls(name) == SelectSeq(trace, LAMBDA e : e.step = name)
StepNames == [i \in 1..Len(trace) |-> trace[i].step]
\* What the widget shows: this.value().
Shown == value(cls, input)
Visible(fd) == fd.display # "none"
InputStep == \E choice \in UserChoices(cls, input, args) : InputEvent(choice)

\* C1: after a live interaction event on a Boolean, Number, Range or Select
\* widget that made the element mean V', target[property] is V', the
\* live-callback registered at the time was called exactly once, with V'
\* (not at all when none was registered), and the commit-callback was not
\* called.
C1_LiveEventWritesAndNotifies ==
    (LastHandler = "input" /\ cls \in Concrete) =>
        /\ SameValue(target, trace[1].arg)
        /\ Len(Calls("_onInput")) = (IF lastReg.input = 0 THEN 0 ELSE 1)
        /\ \A i \in 1..Len(Calls("_onInput")) :
              /\ Calls("_onInput")[i].f = lastReg.input
              /\ SameValue(Calls("_onInput")[i].arg, trace[1].arg)
        /\ Calls("_onChange") = <<>>

\* A live event with a callback registered has changed the bound property.
C1_Witness ==
    /\ LastHandler = "input"
    /\ cls \in Concrete
    /\ lastReg.input # 0
    /\ ~SameValue(target, initial)

\* The coercion the design documents for the initial value: the numeric
\* parse for Number and Range, none for Boolean and Select.
DocumentedCoercion(c, v) ==
    IF c \in {"Number", "Range"} THEN parseFloat(StringOf(v)) ELSE v

\* C2: once a widget of a concrete class has been constructed on
\* target[property] = V, and before any interaction, value() is V (its
\* numeric parse for Number and Range), also for a Range whose V is outside
\* [min, max] or off the step grid and a Select whose V matches no option.
C2_ValueAfterConstruction ==
    (cls \in Concrete /\ phase # "none" /\ ~liveEvents) =>
        /\ phase = "constructed"
        /\ SameValue(Shown, DocumentedCoercion(cls, initial))

\* C3: a Select constructed with an initial value structurally equal to the
\* value of one of its options has an option with that value selected, and
\* value() without interaction is structurally equal to the initial value.
C3_SelectPreselectsEqualValue ==
    (/\ cls = "Select"
     /\ phase = "constructed"
     /\ ~liveEvents
     /\ \E i \in 1..Len(args.options) : SameValue(args.options[i].value, initial)) =>
        /\ input.selectedIndex \in 1..Len(args.options)
        /\ SameValue(args.options[input.selectedIndex].value, initial)
        /\ SameValue(Shown, initial)

\* C4: a folder starts expanded and visible; show() and hide() leave the
\* expansion flag as it is and open() and close() leave the visibility flag
\* as it is; hide() and close() make their flag false, show() and open()
\* make it true.
C4_FolderFlagsIndependent ==
    /\ (folder.open /\ Visible(folder))
    /\ [][/\ (Show \/ Hide) => folder'.open = folder.open
          /\ (Open \/ Close) => Visible(folder') = Visible(folder)
          /\ Hide => ~Visible(folder')
          /\ Show => Visible(folder')
          /\ Close => ~folder'.open
          /\ Open => folder'.open]_vars

\* The folder is hidden and collapsed.
C4_Witness == ~folder.open /\ ~Visible(folder)

\* C5: constructing a class that leaves out setup() or value() throws the
\* "must be implemented" error of the hook and gives no widget (no method of
\* it can have run); a class that leaves out only update() does not throw
\* that error, and a Boolean or Number is constructed.
C5_MissingHookThrows ==
    /\ cls = "OmitsSetup" => (phase = "failed" /\ thrown = SetupNotImplemented)
    /\ cls = "OmitsValue" => (phase = "failed" /\ thrown = ValueNotImplemented)
    /\ phase = "failed" => (label = "" /\ onInputFn = 0 /\ onChangeFn = 0 /\ ~input.disabled)
    /\ (cls \in Concrete /\ "update" \notin Overrides(cls)) =>
          thrown \notin {SetupNotImplemented, ValueNotImplemented}
    /\ cls \in {"Boolean", "Number"} => (phase = "constructed" /\ thrown = "")

\* The constructor of a class without value() has thrown.
C5_Witness == cls = "OmitsValue" /\ phase = "failed" /\ thrown = ValueNotImplemented

\* C6: the readout of a constructed Range shows the text of value(), after
\* construction and after every event.
C6_ReadoutShowsValue ==
    (cls = "Range" /\ phase = "constructed") =>
        /\ valueSpan.exists
        /\ valueSpan.textContent = StringOf(Shown)

\* A live event has moved the slider of a Range away from its first position.
C6_Witness ==
    /\ cls = "Range"
    /\ LastHandler = "input"
    /\ ~SameValue(Shown, initial)
    /\ valueSpan.textContent = StringOf(target)

\* C7: a committed interaction event calls the commit-callback exactly once
\* with value() when one is registered, and does nothing else: no write of
\* target[property], no update (the readout stays), no call of the
\* live-callback.
C7_CommitOnlyNotifies ==
    [][ChangeEvent =>
          /\ target' = target
          /\ valueSpan' = valueSpan
          /\ \A i \in 1..Len(trace') : trace'[i].step \notin {"update", "write", "_onInput"}
          /\ LET calls == SelectSeq(trace', LAMBDA e : e.step = "_onChange")
             IN  /\ Len(calls) = (IF lastReg.change = 0 THEN 0 ELSE 1)
                 /\ \A i \in 1..Len(calls) :
                       calls[i].f = lastReg.change /\ SameValue(calls[i].arg, Shown)]_vars

\* A committed event has called the registered commit-callback.
C7_Witness == LastHandler = "change" /\ Len(Calls("_onChange")) = 1 /\ liveEvents

\* C8: a live interaction event runs value(), update(value), the write of
\* target[property], then the live-callback; so the callback sees
\* target[property] equal to its argument, and the readout of a Range
\* showing it.
C8_LiveEventOrder ==
    LastHandler = "input" =>
        /\ StepNames = <<"input", "value", "update", "write">>
                         \o (IF lastReg.input = 0 THEN <<>> ELSE <<"_onInput">>)
        /\ \A i \in 1..Len(trace) :
              trace[i].step = "_onInput" =>
                 /\ SameValue(trace[i].seenTarget, trace[i].arg)
                 /\ cls = "Range" => trace[i].seenSpan = StringOf(trace[i].arg)
        /\ \A i \in 2..Len(trace) : SameValue(trace[i].arg, trace[2].arg)

\* The live-callback of a Range has run on a value other than the first.
C8_Witness ==
    /\ LastHandler = "input"
    /\ cls = "Range"
    /\ Len(Calls("_onInput")) = 1
    /\ ~SameValue(Calls("_onInput")[1].arg, initial)

\* Construction had to show another value than the initial one: the initial
\* value of a Range is no point of its grid in [min, max], no option of a
\* Select has the initial value.
Coerces ==
    \/ /\ cls = "Range"
       /\ ~(/\ initial.t = "number"
            /\ initial.n \in args.min..args.max
            /\ (initial.n - args.min) % args.step = 0)
    \/ /\ cls = "Select"
       /\ \A i \in 1..Len(args.options) : ~SameValue(args.options[i].value, initial)

\* C9: only a live interaction event changes target[property]; until the
\* first one, target[property] is the value the widget was constructed on,
\* and differs from value() when construction had to show another value.
C9_OnlyLiveEventWrites ==
    /\ [][target' # target => InputStep]_vars
    /\ []((phase = "constructed" /\ ~liveEvents) =>
             /\ target = initial
             /\ Coerces => ~SameValue(Shown, target))

\* A Range shows a clamped value while the bound property keeps its own.
C9_Witness ==
    /\ cls = "Range"
    /\ phase = "constructed"
    /\ ~liveEvents
    /\ LastHandler = "none"
    /\ ~SameValue(Shown, target)

\* C10: the widget holds the function last passed to onInput and the one
\* last passed to onChange; an event calls only the function of its kind
\* that was registered last before it, none when there was none, and the
\* constructor calls none.
C10_LastRegistrationWins ==
    /\ onInputFn = lastReg.input
    /\ onChangeFn = lastReg.change
    /\ LastHandler = "constructor" => (Calls("_onInput") = <<>> /\ Calls("_onChange") = <<>>)
    /\ LastHandler = "input" =>
          /\ Calls("_onChange") = <<>>
          /\ Len(Calls("_onInput")) = (IF lastReg.input = 0 THEN 0 ELSE 1)
          /\ \A i \in 1..Len(Calls("_onInput")) : Calls("_onInput")[i].f = lastReg.input
    /\ LastHandler = "change" =>
          /\ Calls("_onInput") = <<>>
          /\ Len(Calls("_onChange")) = (IF lastReg.change = 0 THEN 0 ELSE 1)
          /\ \A i \in 1..Len(Calls("_onChange")) : Calls("_onChange")[i].f = lastReg.change

\* An event has called a function that replaced another one.
C10_Witness ==
    /\ lastReg.replaced
    /\ LastHandler = "input"
    /\ Len(Calls("_onInput")) = 1
    /\ Calls("_onInput")[1].f = lastReg.input

====
